---- MODULE Spec2Model ----
(***************************************************************************)
(* A model of schedlib's policies (src/src/schedlib/policies):             *)
(*   - round_robin (sat.py), the round-robin conflict resolver (a          *)
(*     generator), run to exhaustion, one action per iteration of its      *)
(*     `while True` loop;                                                  *)
(*   - SATPolicy.seq2cmd (sat.py), the sequencer walk over a list of       *)
(*     blocks, one action per iteration of its `for block in seq` loop;    *)
(*   - the operations on the instrument state (sat.py), one action per     *)
(*     invocation;                                                         *)
(*   - BasicPolicy (basic.py), one action per method call.                 *)
(*   - SATPolicy.apply (sat.py) and the init_seqs of both policies, one    *)
(*     action per method call.                                             *)
(* The programs share no state; SpecRR (SpecRRFair with the loop driven    *)
(* to the end), SpecSeq, SpecOps, SpecSetup, SpecPolicy and SpecSat run    *)
(* one each.                                                               *)
(***************************************************************************)
EXTENDS Integers, Sequences, FiniteSets, TLC

VARIABLES
    \* ---- round_robin ----
    seqs_q,      \* the query candidate lists (argument)
    seqs_v,      \* the value candidate lists (argument; seqs_q when omitted)
    sun,         \* the sun_avoidance argument: NoSun (None) or a cutoff time
    closed,      \* whether core.block_overlap counts touching edges
    block_idx,   \* list of n_seq zeros, read by the exhaustion test
    block_i,     \* the cursor of every candidate list
    seq_i,       \* the rotation index
    merged,      \* the accepted query blocks
    out,         \* the blocks yielded so far, in order
    examined,    \* history: every block examined, as [i, j, ok], in order
    rr_pc,       \* "loop" while the generator runs, "done" once it returned
    \* ---- seq2cmd ----
    seq,         \* the input sequence of blocks (argument)
    time_costs,  \* self.time_costs
    ufm_relock,  \* self.ufm_relock
    apply_boresight_rot, \* self.apply_boresight_rot
    t_cur,       \* the running clock
    is_det_setup,
    is_hwp_spinning,
    cur_boresight_angle,
    commands,    \* the operations emitted so far
    blk,         \* index in seq of the next block of the for loop
    sq_pc,       \* "start", "loop", "done", "assert_failed", "idle"
    \* ---- the operations on the instrument state ----
    state,       \* the state dict handed to every operation
    op_ret,      \* what the last operation returned
    relocks,     \* history: the curr_time of every relock performed
    \* ---- BasicPolicy ----
    rules,       \* self.rules: the configured rules, name -> parameters
    pol_args,    \* the arguments of the call
    pol_ret,     \* what the call returned
    pol_trace,   \* history: the phases apply went through, in order
    pol_pc,      \* the method called while it runs, "returned", "raised"
    \* ---- SATPolicy.apply and the init_seqs of the policies ----
    sat_args,    \* the call: the method, its arguments, the configuration
    sat_blocks,  \* the caller's tree handed to apply, as it is now
    sat_ret,     \* what the call returned or raised
    sat_pc       \* the method called while it runs, "returned", "raised",
                 \* "round_robin" once control is inside round_robin

rr_vars == <<seqs_q, seqs_v, sun, closed, block_idx, block_i, seq_i, merged,
             out, examined, rr_pc>>
sq_vars == <<seq, time_costs, ufm_relock, apply_boresight_rot, t_cur,
             is_det_setup, is_hwp_spinning, cur_boresight_angle, commands,
             blk, sq_pc>>
op_vars == <<state, op_ret, relocks>>
pol_vars == <<rules, pol_args, pol_ret, pol_trace, pol_pc>>
sat_vars == <<sat_args, sat_blocks, sat_ret, sat_pc>>
vars == <<rr_vars, sq_vars, op_vars, pol_vars, sat_vars>>

-----------------------------------------------------------------------------
(* Bounds of the model *)

\* the largest time stamp of a generated round_robin candidate block
MaxT == 2
\* the largest number of candidate lists handed to round_robin
MaxSeqs == 2
\* the largest number of candidate blocks, all lists together
MaxBlocks == 2

\* the largest time stamp of a block handed to seq2cmd
SeqMaxT == 2
\* the largest number of blocks handed to seq2cmd
SeqMaxLen == 2

\* Python's None, where a block is expected
None == [none |-> TRUE]
\* sun_avoidance=None
NoSun == -1
\* Python's None, where a boresight angle is expected
NoAngle == -1
\* Python's None, where a time is expected
NoTime == -1
\* Python's None, where a scan speed or acceleration is expected
NoSpeed == -1

-----------------------------------------------------------------------------
(* Blocks and the block algebra used by round_robin *)

Block(a, b) == [t0 |-> a, t1 |-> b]

\* every block over the time stamps 0..MaxT (t0 <= t1, the Block invariant)
BlockSet == {Block(a, b) : a \in 0..MaxT, b \in 0..MaxT} \cap
            {x \in [t0 : 0..MaxT, t1 : 0..MaxT] : x.t0 <= x.t1}

\* core.block_overlap: do two intervals intersect; `closed` fixes, once per
\* run, whether touching edges count
block_overlap(a, b) ==
    IF closed THEN a.t0 <= b.t1 /\ b.t0 <= a.t1
              ELSE a.t0 < b.t1 /\ b.t0 < a.t1

\* core.seq_has_overlap_with_block(blocks, block)
seq_has_overlap_with_block(blocks, b) ==
    \E k \in 1..Len(blocks) : block_overlap(blocks[k], b)

\* the sun_avoidance rule applied to one block: with cutoff c the part of the
\* block after c is too close to the sun and is cut away (None when nothing
\* is left)
sun_avoidance(b) ==
    IF b.t1 <= sun THEN b
    ELSE IF b.t0 < sun THEN Block(b.t0, sun)
    ELSE None

-----------------------------------------------------------------------------
(* round_robin(seqs_q, seqs_v=None, sun_avoidance=None) *)

n_seq == Len(seqs_q)

\* Python's zero-based lst[k]
At(lst, k) == lst[k + 1]

\* the largest number of yields followed: a zero-duration block that does
\* not overlap itself can be yielded again and again
MaxOut == MaxBlocks + 1

\* line 834: all([block_idx[i] >= len(seqs_q[i]) for i in range(n_seq)])
Exhausted ==
    \A i \in 0..(n_seq - 1) : At(block_idx, i) >= Len(At(seqs_q, i))

\* lines 845-846: the blocks under examination
block_q == At(At(seqs_q, seq_i), At(block_i, seq_i))
\* the query block yielded in place of the value block
block_v_query == block_q
block_v == At(At(seqs_v, seq_i), At(block_i, seq_i))

\* ok with the overlap test forgotten
ok_sun_only ==
    sun # NoSun => block_q = sun_avoidance(block_q)

\* ok with the sun avoidance test forgotten
ok_overlap_only ==
    ~seq_has_overlap_with_block(merged, block_q)

\* lines 852-854: can the block under examination be scheduled
ok ==
    /\ ~seq_has_overlap_with_block(merged, block_q)
    /\ (sun # NoSun => block_q = sun_avoidance(block_q))

\* the examination of the block under the cursor, for the history
Exam(accepted) == [i |-> seq_i, j |-> At(block_i, seq_i), ok |-> accepted]

\* lines 834-835: every list is exhausted, the generator returns
Return ==
    /\ rr_pc = "loop"
    /\ Exhausted
    /\ rr_pc' = "done"
    /\ UNCHANGED <<seqs_q, seqs_v, sun, closed, block_idx, block_i, seq_i,
                   merged, out, examined>>
    /\ UNCHANGED <<sq_vars, op_vars, pol_vars, sat_vars>>

\* lines 839-841: the current list is exhausted, move on to the next one
SkipExhausted ==
    /\ rr_pc = "loop"
    /\ ~Exhausted
    /\ At(block_i, seq_i) >= Len(At(seqs_q, seq_i))
    /\ seq_i' = (seq_i + 1) % n_seq
    /\ UNCHANGED <<seqs_q, seqs_v, sun, closed, block_idx, block_i, merged,
                   out, examined, rr_pc>>
    /\ UNCHANGED <<sq_vars, op_vars, pol_vars, sat_vars>>

\* lines 856-860 and 865: the block is scheduled
Accept ==
    /\ rr_pc = "loop"
    /\ ~Exhausted
    /\ At(block_i, seq_i) < Len(At(seqs_q, seq_i))
    /\ ok
    /\ Len(out) < MaxOut
    /\ out' = Append(out, block_v)
    /\ examined' = Append(examined, Exam(TRUE))
    /\ merged' = Append(merged, block_q)
    /\ seq_i' = (seq_i + 1) % n_seq
    /\ block_i' = [block_i EXCEPT ![seq_i' + 1] = @ + 1]
    /\ UNCHANGED <<seqs_q, seqs_v, sun, closed, block_idx, rr_pc>>
    /\ UNCHANGED <<sq_vars, op_vars, pol_vars, sat_vars>>

\* Reject moving on to the next list, as Accept does
Reject_rotating ==
    /\ rr_pc = "loop"
    /\ ~Exhausted
    /\ At(block_i, seq_i) < Len(At(seqs_q, seq_i))
    /\ ~ok
    /\ examined' = Append(examined, Exam(FALSE))
    /\ seq_i' = (seq_i + 1) % n_seq
    /\ block_i' = [block_i EXCEPT ![seq_i' + 1] = @ + 1]
    /\ UNCHANGED <<seqs_q, seqs_v, sun, closed, block_idx, merged, out, rr_pc>>
    /\ UNCHANGED <<sq_vars, op_vars, pol_vars, sat_vars>>

\* lines 861-865: the block is skipped
Reject ==
    /\ rr_pc = "loop"
    /\ ~Exhausted
    /\ At(block_i, seq_i) < Len(At(seqs_q, seq_i))
    /\ ~ok
    /\ examined' = Append(examined, Exam(FALSE))
    /\ block_i' = [block_i EXCEPT ![seq_i + 1] = @ + 1]
    /\ UNCHANGED <<seqs_q, seqs_v, sun, closed, block_idx, seq_i, merged,
                   out, rr_pc>>
    /\ UNCHANGED <<sq_vars, op_vars, pol_vars, sat_vars>>

\* the arguments round_robin is called with -------------------------------

\* where a flat list of k blocks is cut into n candidate lists
CutPoints(n, k) ==
    {c \in [0..n -> 0..k] :
        c[0] = 0 /\ c[n] = k /\ \A i \in 1..n : c[i - 1] <= c[i]}

Cut(flat, c, n) == [i \in 1..n |-> SubSeq(flat, c[i - 1] + 1, c[i])]

\* every list of at most MaxSeqs candidate lists holding at most MaxBlocks
\* blocks of BlockSet together
CandidateLists ==
    {<<>>} \cup
    UNION {UNION {{Cut(flat, c, n) : flat \in [1..k -> BlockSet],
                                    c \in CutPoints(n, k)}
                  : k \in 0..MaxBlocks}
           : n \in 1..MaxSeqs}

\* value lists that differ from the query lists block by block
Values(qs) ==
    [i \in 1..Len(qs) |->
        [j \in 1..Len(qs[i]) |-> Block(qs[i][j].t0 + 10, qs[i][j].t1 + 10)]]

\* lines 822-831: the state when the loop is entered
RRStart(qs, vs, s, c) ==
    /\ seqs_q = qs
    /\ seqs_v = vs
    /\ sun = s
    /\ closed = c
    /\ block_idx = [i \in 1..Len(qs) |-> 0]
    /\ block_i = [i \in 1..Len(qs) |-> 0]
    /\ seq_i = 0
    /\ merged = <<>>
    /\ out = <<>>
    /\ examined = <<>>
    /\ rr_pc = "loop"

\* the docstring's first example: list(round_robin(seqs_q))
ExampleA_q == << <<Block(1, 2), Block(3, 4)>>, <<Block(5, 6)>> >>

\* the docstring's second example, with a predicate that changes no block
ExampleB_q == << <<Block(1, 3), Block(2, 4)>>, <<Block(6, 7)>> >>
ExampleB_v == << <<Block(10, 15), Block(20, 25)>>, <<Block(30, 35)>> >>

RRArgs ==
    \/ \E qs \in CandidateLists, s \in {NoSun} \cup (1..MaxT), c \in BOOLEAN :
          \E vs \in {qs, Values(qs)} : RRStart(qs, vs, s, c)
    \/ \E c \in BOOLEAN : RRStart(ExampleA_q, ExampleA_q, NoSun, c)
    \/ \E c \in BOOLEAN : RRStart(ExampleB_q, ExampleB_v, 7, c)

\* no operation has been invoked on the instrument state
OpIdle ==
    /\ state = [curr_time |-> 0, last_ufm_relock |-> NoTime,
                az_now |-> 180, el_now |-> 60, boresight_rot_now |-> 0,
                hwp_spinning |-> FALSE,
                az_speed_now |-> NoSpeed, az_accel_now |-> NoSpeed]
    /\ op_ret = [op |-> "none", args |-> <<>>, duration |-> 0,
                 commands |-> <<>>, raised |-> FALSE]
    /\ relocks = <<>>

\* no method of the policy is called
PolIdle ==
    /\ rules = <<>>
    /\ pol_args = <<>>
    /\ pol_ret = None
    /\ pol_trace = <<>>
    /\ pol_pc = "idle"

\* no method of SATPolicy is called
SatIdle ==
    /\ sat_args = <<>>
    /\ sat_blocks = None
    /\ sat_ret = None
    /\ sat_pc = "idle"

\* seq2cmd is not running
SqIdle ==
    /\ seq = <<>>
    /\ time_costs = <<>>
    /\ ufm_relock = FALSE
    /\ apply_boresight_rot = FALSE
    /\ t_cur = 0
    /\ is_det_setup = FALSE
    /\ is_hwp_spinning = FALSE
    /\ cur_boresight_angle = NoAngle
    /\ commands = <<>>
    /\ blk = 0
    /\ sq_pc = "idle"

RRNext ==
    \/ Return
    \/ SkipExhausted
    \/ Accept
    \/ Reject

\* round_robin run to exhaustion on every input of RRArgs
SpecRRInit == RRArgs /\ SqIdle /\ OpIdle /\ PolIdle /\ SatIdle

SpecRR == SpecRRInit /\ [][RRNext]_vars

\* the generator driven to the end by a consumer such as list(): while the
\* loop of line 833 has a next pass, that pass is taken
SpecRRFair == SpecRRInit /\ [][RRNext]_vars /\ WF_vars(RRNext)

-----------------------------------------------------------------------------
(* Properties of round_robin *)

\* every candidate's cursor has reached the end of its list
CursorsAtEnd ==
    \A i \in 0..(n_seq - 1) : At(block_i, i) >= Len(At(seqs_q, i))

\* a block is under examination: the loop is at lines 843-846
Examining ==
    /\ rr_pc = "loop"
    /\ ~Exhausted
    /\ At(block_i, seq_i) < Len(At(seqs_q, seq_i))

\* the acceptance test of the specification: b overlaps no accepted block
\* and the sun avoidance predicate, when there is one, leaves it unchanged
Passes(b, accepted) ==
    /\ \A k \in 1..Len(accepted) : ~block_overlap(accepted[k], b)
    /\ (sun # NoSun => sun_avoidance(b) = b)

IsPrefix(s, t) ==
    /\ Len(s) <= Len(t)
    /\ \A k \in 1..Len(s) : s[k] = t[k]

NoTwoOverlap(s) ==
    \A a \in 1..Len(s), b \in 1..Len(s) : a # b => ~block_overlap(s[a], s[b])

LastExamined == examined[Len(examined)]

\* C1: round_robin terminates on every finite input: once every candidate's
\* cursor has reached the end of its list, the generator returns (the next
\* pass of the loop is its last).
C1_ReturnsWhenCursorsAtEnd ==
    [][(rr_pc = "loop" /\ CursorsAtEnd) => rr_pc' = "done"]_vars

\* C2: with seqs_v omitted no two yielded blocks overlap; at every point of
\* the run the accepted list merged holds no two overlapping blocks.
C2_NoOverlap ==
    /\ NoTwoOverlap(merged)
    /\ (seqs_v = seqs_q => NoTwoOverlap(out))

\* C2's case: seqs_v omitted, two blocks yielded and a third examination
\* rejected for overlap alone
C2_Witness ==
    /\ seqs_v = seqs_q
    /\ sun = NoSun
    /\ Len(out) >= 2
    /\ \E k \in 1..Len(examined) : ~examined[k].ok

\* C3: round_robin on [[1,2],[3,4]] and [[5,6]] without sun avoidance yields
\* exactly [1,2], [5,6], [3,4] in that order and then finishes.
C3_ExampleA ==
    (seqs_q = ExampleA_q /\ seqs_v = ExampleA_q /\ sun = NoSun) =>
        /\ IsPrefix(out, <<Block(1, 2), Block(5, 6), Block(3, 4)>>)
        /\ (CursorsAtEnd \/ rr_pc = "done" =>
                out = <<Block(1, 2), Block(5, 6), Block(3, 4)>>)

\* C4: round_robin on the query lists [[1,3],[2,4]] and [[6,7]] with the value
\* lists [[10,15],[20,25]] and [[30,35]] and a predicate that changes no
\* block yields exactly [10,15] then [30,35].
C4_ExampleB ==
    (seqs_q = ExampleB_q /\ seqs_v = ExampleB_v /\ sun = 7) =>
        /\ IsPrefix(out, <<Block(10, 15), Block(30, 35)>>)
        /\ (CursorsAtEnd \/ rr_pc = "done" =>
                out = <<Block(10, 15), Block(30, 35)>>)

\* C5: the block under examination is yielded (and added to the accepted
\* list) if and only if its query block overlaps no accepted block and the
\* sun avoidance predicate, when supplied, returns it unchanged; a block
\* failing either test is neither yielded nor added.
C5_YieldIffPasses ==
    [][Examining =>
         IF Passes(block_q, merged)
         THEN out' = Append(out, block_v) /\ merged' = Append(merged, block_q)
         ELSE out' = out /\ merged' = merged]_vars

\* C5's case: in one run a block was yielded, one was rejected by the sun
\* avoidance predicate and one was rejected for overlap
C5_Witness ==
    /\ sun # NoSun
    /\ \E k \in 1..Len(examined) : examined[k].ok
    /\ \E k \in 1..Len(examined) :
          /\ ~examined[k].ok
          /\ sun_avoidance(At(At(seqs_q, examined[k].i), examined[k].j)) #
                At(At(seqs_q, examined[k].i), examined[k].j)
    /\ \E k \in 1..Len(examined) :
          /\ ~examined[k].ok
          /\ sun_avoidance(At(At(seqs_q, examined[k].i), examined[k].j)) =
                At(At(seqs_q, examined[k].i), examined[k].j)

\* C6: when the block of candidate list i is accepted, cursor i advances by
\* exactly one, no other cursor changes, and the rotation moves on to
\* candidate (i+1) mod n.
C6_AcceptAdvancesOwnCursor ==
    [][Len(out') = Len(out) + 1 =>
         /\ block_i' = [block_i EXCEPT ![seq_i + 1] = @ + 1]
         /\ seq_i' = (seq_i + 1) % n_seq]_vars

\* C7: when the block of candidate list i is rejected, cursor i alone
\* advances, by exactly one, the rotation index stays at i, the accepted list
\* and the output are unchanged, and the next block examined is candidate
\* i's next block, if it has one.
C7_RejectAdvancesOnly ==
    [][/\ (Examining /\ ~Passes(block_q, merged)) =>
            /\ block_i' = [block_i EXCEPT ![seq_i + 1] = @ + 1]
            /\ seq_i' = seq_i
            /\ merged' = merged
            /\ out' = out
       /\ (/\ Len(examined) > 0
           /\ ~LastExamined.ok
           /\ LastExamined.j + 1 < Len(At(seqs_q, LastExamined.i))) =>
            /\ Len(examined') = Len(examined) + 1
            /\ examined'[Len(examined')].i = LastExamined.i
            /\ examined'[Len(examined')].j = LastExamined.j + 1]_vars

\* C7's case: a block was rejected and the next block of the same list was
\* examined right after it
C7_Witness ==
    \E k \in 1..(Len(examined) - 1) :
        /\ ~examined[k].ok
        /\ examined[k + 1].i = examined[k].i
        /\ examined[k + 1].j = examined[k].j + 1

\* the query block and the value block at an examined position
QueryAt(e) == At(At(seqs_q, e.i), e.j)
ValueAt(e) == At(At(seqs_v, e.i), e.j)

\* the examinations that accepted their block
AcceptedExams ==
    LET accepted(e) == e.ok
    IN SelectSeq(examined, accepted)

\* does the query block of examination n pass the acceptance test, taken
\* against the query blocks accepted by the examinations before it
QueryPasses(n) ==
    LET q == QueryAt(examined[n])
    IN /\ \A m \in 1..(n - 1) :
             examined[m].ok => ~block_overlap(QueryAt(examined[m]), q)
       /\ (sun # NoSun => sun_avoidance(q) = q)

\* C17: every yielded block is seqs_v[i][j] for the position (i, j) of the
\* query block seqs_q[i][j] that was accepted, and whether a position is
\* accepted is decided by the query blocks alone: the query block at the
\* position, those accepted before it, and the sun avoidance of the query.
C17_ValuesFollowQueries ==
    LET all == AcceptedExams
    IN /\ Len(out) = Len(all)
       /\ Len(merged) = Len(all)
       /\ \A k \in 1..Len(all) :
             out[k] = ValueAt(all[k]) /\ merged[k] = QueryAt(all[k])
       /\ \A n \in 1..Len(examined) : examined[n].ok <=> QueryPasses(n)

\* C17's case: value lists that differ from the query lists were supplied, a
\* position was accepted after a rejection, and a sun avoidance applies
C17_Witness ==
    /\ seqs_v # seqs_q
    /\ sun # NoSun
    /\ \E n \in 2..Len(examined) : examined[n].ok /\ ~examined[n - 1].ok
    /\ Len(out) >= 2

\* round_robin is run on the second example of its docstring (lines
\* 814-819), whose avoid_sun returns its argument in both branches
OnExampleB == seqs_q = ExampleB_q /\ seqs_v = ExampleB_v /\ sun = 7

\* C27 as the docstring has it: on the second example round_robin yields
\* exactly [20,25] then [30,35].
C27_DocstringExampleB ==
    OnExampleB =>
        /\ IsPrefix(out, <<Block(20, 25), Block(30, 35)>>)
        /\ (CursorsAtEnd \/ rr_pc = "done" =>
                out = <<Block(20, 25), Block(30, 35)>>)

\* C27: on the second example of the docstring, whose predicate changes no
\* block, the first block round_robin yields is [10,15], the value block of
\* [1,3], and [20,25], the value block of [2,4] which overlaps [1,3], is
\* never yielded.
C27_ExampleBFirstYield ==
    OnExampleB =>
        /\ (Len(out) >= 1 => out[1] = Block(10, 15))
        /\ \A k \in 1..Len(out) : out[k] # Block(20, 25)

\* C27's case: the example was run until every cursor was at the end of its
\* list, [2,4] had been examined and rejected, and a block had been yielded
C27_Witness ==
    /\ OnExampleB
    /\ CursorsAtEnd
    /\ Len(out) >= 1
    /\ \E n \in 1..Len(examined) :
          examined[n].i = 0 /\ examined[n].j = 1 /\ ~examined[n].ok

\* no two accepting examinations are of the same position (list i, block j)
YieldedAtMostOnce ==
    \A m, n \in 1..Len(examined) :
        (m < n /\ examined[m].ok /\ examined[n].ok)
            => ~(examined[m].i = examined[n].i /\ examined[m].j = examined[n].j)

\* C31: round_robin yields each candidate block (list i, position j) at most
\* once, on every input, those holding zero-duration blocks included
C31_YieldedAtMostOnce == YieldedAtMostOnce

\* where touching edges count as overlap every accepted block overlaps
\* itself, and no position is yielded twice
YieldedOnceWhenTouchingOverlaps == closed => YieldedAtMostOnce

\* a block of positive duration overlaps itself under either convention: only
\* zero-duration blocks are yielded twice
OnlyInstantsYieldedTwice ==
    \A m, n \in 1..Len(examined) :
        (m < n /\ examined[m].ok /\ examined[n].ok
               /\ examined[m].i = examined[n].i /\ examined[m].j = examined[n].j)
            => QueryAt(examined[n]).t0 = QueryAt(examined[n]).t1

\* (i, j) is a position of the candidate lists
IsPosition(i, j) ==
    /\ i < n_seq
    /\ j < Len(At(seqs_q, i))

\* the block at (i, j) overlaps no other block of any candidate list, and
\* the sun avoidance predicate, when there is one, leaves it unchanged
Isolated(i, j) ==
    LET b == At(At(seqs_q, i), j)
    IN /\ \A k \in 0..(n_seq - 1) :
             \A l \in 0..(Len(At(seqs_q, k)) - 1) :
                 <<k, l>> # <<i, j>> => ~block_overlap(At(At(seqs_q, k), l), b)
       /\ (sun # NoSun => sun_avoidance(b) = b)

\* the block at (i, j) has been examined / has been yielded
Tested(i, j) ==
    \E n \in 1..Len(examined) : examined[n].i = i /\ examined[n].j = j

Yielded(i, j) ==
    \E n \in 1..Len(examined) :
        examined[n].i = i /\ examined[n].j = j /\ examined[n].ok

\* the number of yields followed is used up
OutFull == Len(out) >= MaxOut

\* C32: no candidate block is passed over untested: a block that overlaps no
\* other block of any candidate list and that the sun avoidance predicate
\* leaves unchanged is eventually yielded, whatever its list and position
\* (followed while the output has room)
C32_IsolatedEventuallyYielded ==
    \A i \in 0..(MaxSeqs - 1), j \in 0..(MaxBlocks - 1) :
        (IsPosition(i, j) /\ Isolated(i, j)) ~> (Yielded(i, j) \/ OutFull)

\* the same as a statement about states: a cursor is past (i, j) only when
\* the block at (i, j) has been tested
PassedOverOnlyTested ==
    \A i \in 0..(n_seq - 1) :
        \A j \in 0..(Len(At(seqs_q, i)) - 1) :
            At(block_i, i) > j => Tested(i, j)

-----------------------------------------------------------------------------
(* SATPolicy.seq2cmd(seq, t0, t1) *)

Subtypes == {"cmb", "cal", "other"}

\* the blocks handed to seq2cmd: an interval and a subtype
SeqBlockSet ==
    {b \in [t0 : 0..SeqMaxT, t1 : 0..SeqMaxT, subtype : Subtypes] :
        b.t0 <= b.t1}

\* block.boresight_angle and block.boresight_rot, read when the block is
\* reached
Boresights ==
    {[boresight_angle |-> NoAngle, boresight_rot |-> 0],
     [boresight_angle |-> 0, boresight_rot |-> 0],
     [boresight_angle |-> 1, boresight_rot |-> 1],
     [boresight_angle |-> 1, boresight_rot |-> 0]}

\* block.az and block.alt, read when the block is reached
Pointings ==
    {[az |-> 180, alt |-> 50],
     [az |-> 90, alt |-> 60]}

\* self.time_costs, in the model's time unit
TimeCosts ==
    {[det_setup |-> 1, hwp_spin_up |-> 1, hwp_spin_down |-> 1,
      bias_step |-> 1, ufm_relock |-> 1],
     [det_setup |-> 1, hwp_spin_up |-> 1, hwp_spin_down |-> 2,
      bias_step |-> 0, ufm_relock |-> 0]}

\* core.seq_is_sorted: non-decreasing t0
seq_is_sorted(s) ==
    \A k \in 1..(Len(s) - 1) : s[k].t0 <= s[k + 1].t0

\* one emitted operation, for block k of seq (0: for the whole session)
Cmd(name, k) == [op |-> name, blk |-> k]
\* det_setup(block.az, block.alt, t_start)
DetSetupCmd(k, pt, t_start) ==
    [op |-> "det_setup", blk |-> k, az |-> pt.az, alt |-> pt.alt,
     t_start |-> t_start]
\* set_boresight(block.boresight_angle), emitted for a block whose
\* boresight_rot is not the tracked one
BoresightCmd(k, bore) ==
    [op |-> "set_boresight", blk |-> k,
     boresight_angle |-> bore.boresight_angle,
     boresight_rot |-> bore.boresight_rot]
\* the move_to(az, el) and the scan of a block
ScanCmd(name, k, pt) == [op |-> name, blk |-> k, az |-> pt.az, alt |-> pt.alt]

\* the block of the current iteration of `for block in seq`
block == seq[blk]

InLoop == sq_pc = "loop" /\ blk <= Len(seq)

\* setup_time without the spin-down and spin-up of a rebias
setup_time_without_rebias ==
    (IF ~is_det_setup \/ block.subtype = "cal"
        THEN time_costs.det_setup ELSE 0)
    + (IF ~is_hwp_spinning THEN time_costs.hwp_spin_up ELSE 0)

\* lines 648-656
setup_time ==
    (IF ~is_det_setup \/ block.subtype = "cal"
        THEN time_costs.det_setup ELSE 0)
    + (IF ~is_hwp_spinning THEN time_costs.hwp_spin_up ELSE 0)
    + (IF is_hwp_spinning /\ block.subtype = "cal"
        THEN time_costs.hwp_spin_down + time_costs.hwp_spin_up ELSE 0)

\* the test of line 662 without the setup time
insufficient_time_ignoring_setup ==
    block.subtype = "cmb" /\ t_cur > block.t1

\* line 662: the block is skipped for insufficient time
insufficient_time ==
    block.subtype = "cmb" /\ t_cur + setup_time > block.t1

\* set_boresight without the comparison with the tracked rotation
set_boresight_always(bore) ==
    /\ apply_boresight_rot
    /\ bore.boresight_angle # NoAngle

\* lines 686 and 719: is the boresight to be set for this block
set_boresight(bore) ==
    /\ apply_boresight_rot
    /\ bore.boresight_angle # NoAngle
    /\ bore.boresight_rot # cur_boresight_angle

\* lines 616-636: the commands emitted before the blocks are looked at
Preamble ==
    <<Cmd("preamble", 0)>>
    \o (IF ufm_relock THEN <<Cmd("ufm_relock", 0)>> ELSE <<>>)
    \o <<Cmd("set_scan_params", 0)>>

\* lines 616-645, the assertion of line 639 holding
Begin ==
    /\ sq_pc = "start"
    /\ seq_is_sorted(seq)
    /\ commands' = Preamble
    /\ t_cur' = 0 + (IF ufm_relock THEN time_costs.ufm_relock ELSE 0)
    /\ is_det_setup' = FALSE
    /\ is_hwp_spinning' = FALSE
    /\ cur_boresight_angle' = NoAngle
    /\ blk' = 1
    /\ sq_pc' = "loop"
    /\ UNCHANGED <<seq, time_costs, ufm_relock, apply_boresight_rot>>
    /\ UNCHANGED <<rr_vars, op_vars, pol_vars, sat_vars>>

\* the assertion of line 639 left out: the walk starts on an unsorted seq
AssertFails_ignored ==
    /\ sq_pc = "start"
    /\ ~seq_is_sorted(seq)
    /\ commands' = Preamble
    /\ t_cur' = 0 + (IF ufm_relock THEN time_costs.ufm_relock ELSE 0)
    /\ is_det_setup' = FALSE
    /\ is_hwp_spinning' = FALSE
    /\ cur_boresight_angle' = NoAngle
    /\ blk' = 1
    /\ sq_pc' = "loop"
    /\ UNCHANGED <<seq, time_costs, ufm_relock, apply_boresight_rot>>
    /\ UNCHANGED <<rr_vars, op_vars, pol_vars, sat_vars>>

\* lines 616-639, the assertion of line 639 failing: AssertionError
AssertFails ==
    /\ sq_pc = "start"
    /\ ~seq_is_sorted(seq)
    /\ commands' = Preamble
    /\ sq_pc' = "assert_failed"
    /\ UNCHANGED <<seq, time_costs, ufm_relock, apply_boresight_rot, t_cur,
                   is_det_setup, is_hwp_spinning, cur_boresight_angle, blk>>
    /\ UNCHANGED <<rr_vars, op_vars, pol_vars, sat_vars>>

\* SkipBlock charging the skipped block to the clock
SkipBlock_advancing ==
    /\ InLoop
    /\ insufficient_time
    /\ commands' = Append(commands, Cmd("skip", blk))
    /\ t_cur' = block.t1 + time_costs.bias_step
    /\ blk' = blk + 1
    /\ UNCHANGED <<seq, time_costs, ufm_relock, apply_boresight_rot,
                   is_det_setup, is_hwp_spinning, cur_boresight_angle, sq_pc>>
    /\ UNCHANGED <<rr_vars, op_vars, pol_vars, sat_vars>>

\* lines 662-668: the block is skipped
SkipBlock ==
    /\ InLoop
    /\ insufficient_time
    /\ commands' = Append(commands, Cmd("skip", blk))
    /\ blk' = blk + 1
    /\ UNCHANGED <<seq, time_costs, ufm_relock, apply_boresight_rot, t_cur,
                   is_det_setup, is_hwp_spinning, cur_boresight_angle, sq_pc>>
    /\ UNCHANGED <<rr_vars, op_vars, pol_vars, sat_vars>>

\* lines 670-704 and 764: a cmb block is scheduled
CmbBlock ==
    /\ InLoop
    /\ ~insufficient_time
    /\ block.subtype = "cmb"
    /\ \E bore \in Boresights, pt \in Pointings :
        /\ commands' = commands
             \o (IF ~is_det_setup
                   THEN <<DetSetupCmd(blk, pt, block.t0 - setup_time)>>
                   ELSE <<>>)
             \o (IF ~is_hwp_spinning
                   THEN <<Cmd("hwp_spin_up", blk)>> ELSE <<>>)
             \o <<Cmd("wait_until", blk)>>
             \o (IF set_boresight(bore)
                   THEN <<BoresightCmd(blk, bore)>> ELSE <<>>)
             \o <<ScanCmd("cmb_scan", blk, pt)>>
        /\ cur_boresight_angle' =
             IF set_boresight(bore) THEN bore.boresight_rot
                                    ELSE cur_boresight_angle
    /\ is_det_setup' = TRUE
    /\ is_hwp_spinning' = TRUE
    /\ t_cur' = block.t1 + time_costs.bias_step
    /\ blk' = blk + 1
    /\ UNCHANGED <<seq, time_costs, ufm_relock, apply_boresight_rot, sq_pc>>
    /\ UNCHANGED <<rr_vars, op_vars, pol_vars, sat_vars>>

\* CalBlock without the spin-up of lines 726-728: the HWP stays as the rebias
\* left it
CalBlock_stays_stopped ==
    /\ InLoop
    /\ ~insufficient_time
    /\ block.subtype = "cal"
    /\ \E bore \in Boresights, pt \in Pointings :
        LET t_start == block.t0 - setup_time
                       + (IF is_hwp_spinning
                            THEN time_costs.hwp_spin_down ELSE 0)
        IN
        /\ commands' = commands
             \o (IF is_hwp_spinning
                   THEN <<Cmd("hwp_spin_down", blk)>> ELSE <<>>)
             \o <<DetSetupCmd(blk, pt, t_start)>>
             \o (IF set_boresight(bore)
                   THEN <<BoresightCmd(blk, bore)>> ELSE <<>>)
             \o <<ScanCmd("cal_scan", blk, pt)>>
        /\ cur_boresight_angle' =
             IF set_boresight(bore) THEN bore.boresight_rot
                                    ELSE cur_boresight_angle
    /\ is_det_setup' = TRUE
    /\ is_hwp_spinning' = FALSE
    /\ t_cur' = block.t1 + time_costs.bias_step
    /\ blk' = blk + 1
    /\ UNCHANGED <<seq, time_costs, ufm_relock, apply_boresight_rot, sq_pc>>
    /\ UNCHANGED <<rr_vars, op_vars, pol_vars, sat_vars>>

\* CalBlock rebiasing the detectors with the HWP left spinning
CalBlock_keeps_spinning ==
    /\ InLoop
    /\ ~insufficient_time
    /\ block.subtype = "cal"
    /\ \E bore \in Boresights, pt \in Pointings :
        /\ commands' = commands
             \o <<DetSetupCmd(blk, pt, block.t0 - setup_time)>>
             \o (IF set_boresight(bore)
                   THEN <<BoresightCmd(blk, bore)>> ELSE <<>>)
             \o (IF ~is_hwp_spinning
                   THEN <<Cmd("hwp_spin_up", blk)>> ELSE <<>>)
             \o <<ScanCmd("cal_scan", blk, pt)>>
        /\ cur_boresight_angle' =
             IF set_boresight(bore) THEN bore.boresight_rot
                                    ELSE cur_boresight_angle
    /\ is_det_setup' = TRUE
    /\ is_hwp_spinning' = TRUE
    /\ t_cur' = block.t1 + time_costs.bias_step
    /\ blk' = blk + 1
    /\ UNCHANGED <<seq, time_costs, ufm_relock, apply_boresight_rot, sq_pc>>
    /\ UNCHANGED <<rr_vars, op_vars, pol_vars, sat_vars>>

\* lines 705-764: a calibration block is scheduled
CalBlock ==
    /\ InLoop
    /\ ~insufficient_time
    /\ block.subtype = "cal"
    /\ \E bore \in Boresights, pt \in Pointings :
        LET t_start == block.t0 - setup_time
                       + (IF is_hwp_spinning
                            THEN time_costs.hwp_spin_down ELSE 0)
            \* is_hwp_spinning after lines 708-713
            spinning == FALSE
        IN
        /\ commands' = commands
             \o (IF is_hwp_spinning
                   THEN <<Cmd("hwp_spin_down", blk)>> ELSE <<>>)
             \o <<DetSetupCmd(blk, pt, t_start)>>
             \o (IF set_boresight(bore)
                   THEN <<BoresightCmd(blk, bore)>> ELSE <<>>)
             \o (IF ~spinning THEN <<Cmd("hwp_spin_up", blk)>> ELSE <<>>)
             \o <<ScanCmd("cal_scan", blk, pt)>>
        /\ cur_boresight_angle' =
             IF set_boresight(bore) THEN bore.boresight_rot
                                    ELSE cur_boresight_angle
    /\ is_det_setup' = TRUE
    /\ is_hwp_spinning' = TRUE
    /\ t_cur' = block.t1 + time_costs.bias_step
    /\ blk' = blk + 1
    /\ UNCHANGED <<seq, time_costs, ufm_relock, apply_boresight_rot, sq_pc>>
    /\ UNCHANGED <<rr_vars, op_vars, pol_vars, sat_vars>>

\* lines 646-669 and 764: a block that is neither cmb nor cal
OtherBlock ==
    /\ InLoop
    /\ ~insufficient_time
    /\ block.subtype \notin {"cmb", "cal"}
    /\ t_cur' = block.t1 + time_costs.bias_step
    /\ blk' = blk + 1
    /\ UNCHANGED <<seq, time_costs, ufm_relock, apply_boresight_rot,
                   is_det_setup, is_hwp_spinning, cur_boresight_angle,
                   commands, sq_pc>>
    /\ UNCHANGED <<rr_vars, op_vars, pol_vars, sat_vars>>

\* lines 766-769: the loop is over, the commands are returned
Finish ==
    /\ sq_pc = "loop"
    /\ blk > Len(seq)
    /\ commands' = commands \o <<Cmd("hwp_spin_down", 0), Cmd("wrap_up", 0)>>
    /\ sq_pc' = "done"
    /\ UNCHANGED <<seq, time_costs, ufm_relock, apply_boresight_rot, t_cur,
                   is_det_setup, is_hwp_spinning, cur_boresight_angle, blk>>
    /\ UNCHANGED <<rr_vars, op_vars, pol_vars, sat_vars>>

\* the arguments and the configuration seq2cmd is called with
SeqArgs ==
    /\ seq \in UNION {[1..k -> SeqBlockSet] : k \in 0..SeqMaxLen}
    /\ time_costs \in TimeCosts
    \* the relock is configured where it has a cost
    /\ ufm_relock = (time_costs.ufm_relock > 0)
    /\ apply_boresight_rot \in BOOLEAN
    /\ t_cur = 0
    /\ is_det_setup = FALSE
    /\ is_hwp_spinning = FALSE
    /\ cur_boresight_angle = NoAngle
    /\ commands = <<>>
    /\ blk = 0
    /\ sq_pc = "start"

SeqNext ==
    \/ Begin
    \/ AssertFails
    \/ SkipBlock
    \/ CmbBlock
    \/ CalBlock
    \/ OtherBlock
    \/ Finish

\* round_robin is not running
RRIdle == RRStart(<<>>, <<>>, NoSun, FALSE)

\* seq2cmd run on every input of SeqArgs
SpecSeqInit == SeqArgs /\ RRIdle /\ OpIdle /\ PolIdle /\ SatIdle

SpecSeq == SpecSeqInit /\ [][SeqNext]_vars

-----------------------------------------------------------------------------
(* Properties of seq2cmd *)

\* the operations that set the instrument up for a block, and the scans
SetupOps == {"det_setup", "hwp_spin_up", "hwp_spin_down", "set_boresight"}
ScanOps == {"cmb_scan", "cal_scan"}

\* C8: every block, whatever its subtype, for which t_cur + setup_time >
\* block.t1 when it is reached is dropped: no setup operation and no scan is
\* emitted for it.
C8_LateBlockDropped ==
    [][(InLoop /\ t_cur + setup_time > block.t1) =>
         \A m \in 1..Len(commands') :
             commands'[m].blk = blk =>
                 commands'[m].op \notin SetupOps \cup ScanOps]_vars

\* C9: when a block is dropped for insufficient time, a skip record naming
\* the block is appended to the output, t_cur, is_det_setup, is_hwp_spinning
\* and cur_boresight_angle are what they were before the block, and the walk
\* goes on with the next block.
C9_DropLeavesState ==
    [][(InLoop /\ insufficient_time) =>
         /\ commands' = Append(commands, Cmd("skip", blk))
         /\ t_cur' = t_cur
         /\ is_det_setup' = is_det_setup
         /\ is_hwp_spinning' = is_hwp_spinning
         /\ cur_boresight_angle' = cur_boresight_angle
         /\ blk' = blk + 1
         /\ sq_pc' = "loop"]_vars

\* C9's case: a block was scheduled and its boresight set, the next block was
\* dropped, and the walk went on to its end
C9_Witness ==
    /\ sq_pc = "done"
    /\ is_det_setup
    /\ is_hwp_spinning
    /\ cur_boresight_angle # NoAngle
    /\ \E m \in 1..Len(commands) :
          commands[m].op = "skip" /\ commands[m].blk = 2

\* C10: for an input sorted by t0, t_cur never decreases from one processed
\* block to the next, whether the block is scheduled or dropped.
C10_ClockNeverDecreases ==
    [][(InLoop /\ seq_is_sorted(seq)) => t_cur' >= t_cur]_vars

\* the operations emitted for block k of seq, in the order of emission
OpsOf(cmds, k) ==
    LET of_k(c) == c.blk = k
        sel == SelectSeq(cmds, of_k)
    IN [m \in 1..Len(sel) |-> sel[m].op]

\* C11: once seq2cmd has returned, every block of seq has either its scan or
\* a skip record naming it among the commands: no block is left out silently.
C11_EveryBlockAccounted ==
    sq_pc = "done" =>
        \A k \in 1..Len(seq) :
            \E m \in 1..Len(commands) :
                /\ commands[m].blk = k
                /\ commands[m].op \in ScanOps \cup {"skip"}

\* the pointing of the block accepted last before command m: the pointing of
\* the last scan among commands[1..m-1], None if there is no scan there
PrevPointing(m) ==
    LET scans == {n \in 1..(m - 1) : commands[n].op \in ScanOps}
    IN IF scans = {} THEN None
       ELSE LET n == CHOOSE x \in scans : \A y \in scans : y <= x
            IN [az |-> commands[n].az, alt |-> commands[n].alt]

\* C12: a det_setup is emitted for every scheduled block whose (az, alt)
\* differs from that of the block scheduled before it, and for every scheduled
\* calibration block, and it is emitted before the block's scan.
C12_DetSetupOnPointingChange ==
    \A m \in 1..Len(commands) :
        (/\ commands[m].op \in ScanOps
         /\ \/ commands[m].op = "cal_scan"
            \/ /\ PrevPointing(m) # None
               /\ PrevPointing(m) # [az |-> commands[m].az,
                                     alt |-> commands[m].alt])
        => \E n \in 1..(m - 1) :
              /\ commands[n].op = "det_setup"
              /\ commands[n].blk = commands[m].blk

\* the commands emitted by the step
Emitted == SubSeq(commands', Len(commands) + 1, Len(commands'))

\* the operations of a rebias: stopping the HWP, the detector setup,
\* restarting the HWP, and the scan
RebiasOps == {"hwp_spin_down", "det_setup", "hwp_spin_up", "cal_scan"}

\* C13: for a calibration block reached with the HWP spinning and scheduled,
\* seq2cmd emits for the block hwp_spin_down, then det_setup, then
\* hwp_spin_up, then the scan, in that order, and the HWP is spinning after.
C13_CalRebiasOrder ==
    [][(InLoop /\ block.subtype = "cal" /\ ~insufficient_time
          /\ is_hwp_spinning) =>
         /\ IsPrefix(commands, commands')
         /\ \A m \in 1..Len(Emitted) : Emitted[m].blk = blk
         /\ LET rebias(c) == c.op \in RebiasOps
            IN OpsOf(SelectSeq(Emitted, rebias), blk) =
                 <<"hwp_spin_down", "det_setup", "hwp_spin_up", "cal_scan">>
         /\ is_hwp_spinning']_vars

\* C13's case: a calibration block other than the first of seq was reached
\* with the HWP spinning and was scheduled
C13_Witness ==
    \E k \in 2..Len(seq) :
        /\ seq[k].subtype = "cal"
        /\ \E m \in 1..Len(commands) :
              commands[m].op = "hwp_spin_up" /\ commands[m].blk < k
                  /\ commands[m].blk > 0
        /\ \E m \in 1..Len(commands) :
              commands[m].op = "cal_scan" /\ commands[m].blk = k

\* the set_boresight commands emitted so far, in order
Rotations ==
    LET is_rotation(c) == c.op = "set_boresight"
    IN SelectSeq(commands, is_rotation)

C22_UnsortedRejected ==
    (~seq_is_sorted(seq) /\ sq_pc # "start") =>
        /\ sq_pc = "assert_failed"
        /\ blk = 0
        /\ \A m \in 1..Len(commands) : commands[m].blk = 0

\* C22's case: seq2cmd was called on blocks out of order that it would have
\* scheduled, and the call is over
C22_Witness ==
    /\ sq_pc # "start"
    /\ Len(seq) >= 2
    /\ seq[1].t0 > seq[2].t0
    /\ seq[1].subtype = "cal"
    /\ seq[2].subtype = "cmb"

\* the operations self.time_costs is charged for in setup_time
CostedOps == {"det_setup", "hwp_spin_up", "hwp_spin_down"}

\* the sum of the configured costs of the costed operations among cmds
RECURSIVE CostOf(_)
CostOf(cmds) ==
    IF cmds = <<>> THEN 0
    ELSE (IF Head(cmds).op \in CostedOps THEN time_costs[Head(cmds).op] ELSE 0)
         + CostOf(Tail(cmds))

C28_ScanWhenSetUpAndSpinning ==
    \A m \in 1..Len(commands) :
        commands[m].op \in ScanOps =>
            /\ \E n \in 1..(m - 1) : commands[n].op = "det_setup"
            /\ \E n \in 1..(m - 1) :
                  /\ commands[n].op = "hwp_spin_up"
                  /\ \A j \in (n + 1)..(m - 1) :
                        commands[j].op # "hwp_spin_down"
            /\ (sq_pc = "loop" => is_det_setup /\ is_hwp_spinning)

\* C28's case: a cmb block was scanned, then a calibration block, for which
\* the HWP was stopped and started again, and the walk goes on
C28_Witness ==
    /\ sq_pc = "loop"
    /\ Len(seq) >= 2
    /\ seq[1].subtype = "cmb"
    /\ \E m \in 1..Len(commands) :
          commands[m].op = "cmb_scan" /\ commands[m].blk = 1
    /\ \E m \in 1..Len(commands) :
          commands[m].op = "hwp_spin_down" /\ commands[m].blk = 2
    /\ \E m \in 1..Len(commands) :
          commands[m].op = "cal_scan" /\ commands[m].blk = 2

\* the HWP commands
HwpOps == {"hwp_spin_up", "hwp_spin_down"}

\* the HWP command emitted last before command m is `op`
LastHwpOpBefore(m, op) ==
    \E n \in 1..(m - 1) :
        /\ commands[n].op = op
        /\ \A j \in (n + 1)..(m - 1) : commands[j].op \notin HwpOps

\* C29: in the commands seq2cmd emits, for every seq (the empty one and one
\* whose blocks are all dropped included), the spin-ups and the spin-downs of
\* the HWP alternate, starting with a spin-up: a spin-down comes only after a
\* spin-up with no HWP command between them, a spin-up is the first HWP
\* command or comes after a spin-down.
C29_HwpAlternates ==
    \A m \in 1..Len(commands) :
        /\ commands[m].op = "hwp_spin_down" =>
              LastHwpOpBefore(m, "hwp_spin_up")
        /\ commands[m].op = "hwp_spin_up" =>
              ~LastHwpOpBefore(m, "hwp_spin_up")

\* the same while the blocks are walked, before lines 766-769
HwpAlternatesInLoop ==
    sq_pc = "loop" => C29_HwpAlternates

\* the step schedules the block of the current iteration: it emits its scan
Scheduled ==
    /\ InLoop
    /\ \E m \in 1..Len(Emitted) :
          Emitted[m].op \in ScanOps /\ Emitted[m].blk = blk

-----------------------------------------------------------------------------
(* The operations on the instrument state; times are in hours *)

\* the latest curr_time followed
OpsMaxTime == 30

\* line 217: 12*u.hour, in hours
RelockHours == 12
\* line 226: 15*u.minute, in minutes
RelockMinutes == 15

\* doit with the interval counted as elapsed when it is just reached
doit_inclusive ==
    \/ state.last_ufm_relock = NoTime
    \/ state.curr_time - state.last_ufm_relock >= RelockHours

\* lines 215-220: is a relock due
doit ==
    \/ state.last_ufm_relock = NoTime
    \/ state.curr_time - state.last_ufm_relock > RelockHours

\* lines 213-240: ufm_relock(state), the duration it returns in minutes
UfmRelockOp ==
    /\ state' = IF doit
                  THEN [state EXCEPT !.last_ufm_relock = state.curr_time]
                  ELSE state
    /\ op_ret' = [op |-> "ufm-relock",
                  duration |-> IF doit THEN RelockMinutes ELSE 0]
    /\ relocks' = IF doit THEN Append(relocks, state.curr_time) ELSE relocks
    /\ UNCHANGED <<rr_vars, sq_vars, pol_vars, sat_vars>>

\* the caller moves state['curr_time'] forward between two operations
AdvanceTime ==
    /\ \E t \in (state.curr_time + 1)..OpsMaxTime :
          state' = [state EXCEPT !.curr_time = t]
    /\ UNCHANGED <<op_ret, relocks>>
    /\ UNCHANGED <<rr_vars, sq_vars, pol_vars, sat_vars>>

OpsNext ==
    \/ UfmRelockOp
    \/ AdvanceTime

\* any sequence of operations at non-decreasing times, from the initial state
SpecOpsInit == OpIdle /\ RRIdle /\ SqIdle /\ PolIdle /\ SatIdle

SpecOps == SpecOpsInit /\ [][OpsNext]_vars

-----------------------------------------------------------------------------
(* Properties of the operations *)

\* C15: an invocation of ufm_relock performs a relock (returns 15 minutes and
\* sets last_ufm_relock to curr_time) exactly when last_ufm_relock is None or
\* more than 12 hours before curr_time, and otherwise returns 0 and leaves the
\* state as it is; so any two relocks performed are more than 12 hours apart.
C15_RelockOncePerInterval ==
    /\ [][state'.curr_time = state.curr_time =>
            IF \/ state.last_ufm_relock = NoTime
               \/ state.curr_time - state.last_ufm_relock > 12
              THEN /\ op_ret'.duration = 15
                   /\ state'.last_ufm_relock = state.curr_time
                   /\ relocks' = Append(relocks, state.curr_time)
              ELSE /\ op_ret'.duration = 0
                   /\ state' = state
                   /\ relocks' = relocks]_vars
    /\ [](\A k \in 1..(Len(relocks) - 1) : relocks[k + 1] - relocks[k] > 12)

\* C15's case: two relocks were performed, and an invocation exactly 12 hours
\* after the last one performed none
C15_Witness ==
    /\ Len(relocks) >= 2
    /\ state.curr_time - state.last_ufm_relock = 12
    /\ op_ret.duration = 0

-----------------------------------------------------------------------------
(* The set-up operations on the instrument state; durations are in seconds *)

\* u.minute, in seconds
minute == 60
\* line 248: 20*u.minute, in minutes
SpinUpMinutes == 20
\* line 263: 10*u.minute, in minutes
SpinDownMinutes == 10
\* line 307: duration += 60
DetSetupSeconds == 60

\* the blocks handed to det_setup and setup_boresight
OpBlocks ==
    {[az |-> pt.az, alt |-> pt.alt, boresight_rot |-> r] :
        pt \in Pointings, r \in {0, 1}}

\* the az_speed and az_accel handed to set_scan_params
ScanParams ==
    {[az_speed |-> 1, az_accel |-> 1], [az_speed |-> 2, az_accel |-> 1]}

\* what an operation returns, with the arguments it was invoked with
OpRet(name, args, duration, cmds) ==
    [op |-> name, args |-> args, duration |-> duration, commands |-> cmds,
     raised |-> FALSE]

\* the lines of a returned list that are commands: not a comment, not blank
Hardware(cmds) ==
    SelectSeq(cmds, LAMBDA c : c \notin {"#", ""})

\* lines 244-255: the body of hwp_spin_up on a state st
hwp_spin_up(st, disable_hwp) ==
    IF ~disable_hwp /\ ~st.hwp_spinning
       THEN [state |-> [st EXCEPT !.hwp_spinning = TRUE],
             duration |-> SpinUpMinutes * minute,
             commands |-> <<"#", "HWPPrep", "HWPSpinUp">>]
       ELSE [state |-> st, duration |-> 0, commands |-> <<"#">>]

\* hwp_spin_down stopping a spinning HWP whether it is disabled or not
hwp_spin_down_ignoring_disable(st, disable_hwp) ==
    IF st.hwp_spinning
       THEN [state |-> [st EXCEPT !.hwp_spinning = FALSE],
             duration |-> SpinDownMinutes * minute,
             commands |-> <<"#", "HWPFastStop", "HWPPost">>]
       ELSE [state |-> st, duration |-> 0, commands |-> <<"#">>]

\* lines 259-269: the body of hwp_spin_down on a state st
hwp_spin_down(st, disable_hwp) ==
    IF ~disable_hwp /\ st.hwp_spinning
       THEN [state |-> [st EXCEPT !.hwp_spinning = FALSE],
             duration |-> SpinDownMinutes * minute,
             commands |-> <<"#", "HWPFastStop", "HWPPost">>]
       ELSE [state |-> st, duration |-> 0, commands |-> <<"#">>]

\* lines 242-255: hwp_spin_up(state, disable_hwp)
HwpSpinUp ==
    /\ \E disable_hwp \in BOOLEAN :
        LET r == hwp_spin_up(state, disable_hwp)
        IN /\ state' = r.state
           /\ op_ret' = OpRet("hwp-spin-up", [disable_hwp |-> disable_hwp],
                              r.duration, r.commands)
    /\ UNCHANGED relocks
    /\ UNCHANGED <<rr_vars, sq_vars, pol_vars, sat_vars>>

\* lines 257-269: hwp_spin_down(state, disable_hwp)
HwpSpinDown ==
    /\ \E disable_hwp \in BOOLEAN :
        LET r == hwp_spin_down(state, disable_hwp)
        IN /\ state' = r.state
           /\ op_ret' = OpRet("hwp-spin-down", [disable_hwp |-> disable_hwp],
                              r.duration, r.commands)
    /\ UNCHANGED relocks
    /\ UNCHANGED <<rr_vars, sq_vars, pol_vars, sat_vars>>

\* lines 271-281: set_scan_params(state, az_speed, az_accel)
SetScanParams ==
    /\ \E p \in ScanParams :
        IF p.az_speed # state.az_speed_now \/ p.az_accel # state.az_accel_now
           THEN /\ state' = [state EXCEPT !.az_speed_now = p.az_speed,
                                          !.az_accel_now = p.az_accel]
                /\ op_ret' = OpRet("set-scan-params", p, 0,
                                   <<"set_scan_params">>)
           ELSE /\ state' = state
                /\ op_ret' = OpRet("set-scan-params", p, 0, <<>>)
    /\ UNCHANGED relocks
    /\ UNCHANGED <<rr_vars, sq_vars, pol_vars, sat_vars>>

\* the pointing test of det_setup and setup_boresight (lines 289 and 322)
pointing_differs(st, b) == b.az # st.az_now \/ b.alt # st.el_now

\* lines 284-313: det_setup(state, block, disable_hwp).  Line 291 calls
\* hwp_spin_down(state) with no disable_hwp: the call either fails for the
\* missing argument (TypeError) or runs with the HWP enabled, as the wrapper
\* of cmd.operation decides.
DetSetup ==
    /\ \E b \in OpBlocks, disable_hwp \in BOOLEAN, missing_arg_fails \in BOOLEAN :
        LET args == [block |-> b, disable_hwp |-> disable_hwp]
            stops == ~disable_hwp /\ state.hwp_spinning
            down == IF stops THEN hwp_spin_down(state, FALSE)
                    ELSE [state |-> state, duration |-> 0, commands |-> <<>>]
            starts == ~disable_hwp /\ ~down.state.hwp_spinning
            up == IF starts THEN hwp_spin_up(down.state, disable_hwp)
                  ELSE [state |-> down.state, duration |-> 0,
                        commands |-> <<>>]
        IN IF ~pointing_differs(state, b)
              THEN /\ state' = state
                   /\ op_ret' = OpRet("det-setup", args, 0, <<>>)
           ELSE IF stops /\ missing_arg_fails
              THEN /\ state' = state
                   /\ op_ret' = [OpRet("det-setup", args, 0, <<>>)
                                   EXCEPT !.raised = TRUE]
           ELSE /\ state' = up.state
                /\ op_ret' = OpRet("det-setup", args,
                                   down.duration + DetSetupSeconds
                                       + up.duration,
                                   down.commands
                                       \o <<"", "wait_until", "move_to",
                                            "take_bgmap", "iv_curve",
                                            "bias_dets", "sleep", "bias_step",
                                            "#", "">>
                                       \o up.commands)
    /\ UNCHANGED relocks
    /\ UNCHANGED <<rr_vars, sq_vars, pol_vars, sat_vars>>

\* lines 315-326: setup_boresight(state, block, apply_boresight_rot)
SetupBoresight ==
    /\ \E b \in OpBlocks, apply_rot \in BOOLEAN :
        LET rotates == apply_rot /\ state.boresight_rot_now # b.boresight_rot
            moves == pointing_differs(state, b)
        IN /\ state' = [state EXCEPT
                 !.boresight_rot_now = IF rotates THEN b.boresight_rot ELSE @,
                 !.az_now = IF moves THEN b.az ELSE @,
                 !.el_now = IF moves THEN b.alt ELSE @]
           /\ op_ret' = OpRet("setup-boresight",
                              [block |-> b, apply_boresight_rot |-> apply_rot],
                              0,
                              (IF rotates THEN <<"set_boresight">> ELSE <<>>)
                                  \o (IF moves THEN <<"move_to">> ELSE <<>>))
    /\ UNCHANGED relocks
    /\ UNCHANGED <<rr_vars, sq_vars, pol_vars, sat_vars>>

SetupNext ==
    \/ HwpSpinUp
    \/ HwpSpinDown
    \/ SetScanParams
    \/ DetSetup
    \/ SetupBoresight

\* any sequence of set-up operations, from the initial state
SpecSetupInit == OpIdle /\ RRIdle /\ SqIdle /\ PolIdle /\ SatIdle

SpecSetup == SpecSetupInit /\ [][SetupNext]_vars

-----------------------------------------------------------------------------
(* Properties of the set-up operations *)

\* the step invokes the operation invoked last, with the same arguments, and
\* that invocation had returned
SameAgain ==
    /\ op_ret'.op = op_ret.op
    /\ op_ret'.args = op_ret.args
    /\ ~op_ret.raised

\* the invocation of the step returned no duration and no command and left the
\* state as it was
NoOp ==
    /\ ~op_ret'.raised
    /\ op_ret'.duration = 0
    /\ Hardware(op_ret'.commands) = <<>>
    /\ state' = state

\* C26: every set-up operation (det-setup, setup-boresight, hwp-spin-up,
\* hwp-spin-down, set-scan-params) is idempotent: invoked a second time in a
\* row with the same block or parameters it has zero duration, returns no
\* hardware command and changes nothing in the state.
C26_SetupIdempotent ==
    [][SameAgain => NoOp]_vars

\* the same for the four operations other than det-setup
SetupIdempotentButDetSetup ==
    [][(SameAgain /\ op_ret.op # "det-setup") => NoOp]_vars

\* the operations that read disable_hwp
HwpAwareOps == {"hwp-spin-up", "hwp-spin-down", "det-setup"}

\* the step invokes one of them with disable_hwp set to true
DisabledHwpStep ==
    /\ op_ret'.op \in HwpAwareOps
    /\ op_ret'.args.disable_hwp

\* C33: with disable_hwp set to true no invocation of hwp-spin-up,
\* hwp-spin-down or det-setup changes hwp_spinning (so no sequence of them
\* does), and every hwp-spin-up and hwp-spin-down invocation has zero duration
C33_DisabledHwpUntouched ==
    [][DisabledHwpStep =>
          /\ state'.hwp_spinning = state.hwp_spinning
          /\ (op_ret'.op # "det-setup" => op_ret'.duration = 0)]_vars

\* C33's case: hwp-spin-down was invoked with disable_hwp on a spinning HWP
\* and left it spinning, at no cost
C33_Witness ==
    /\ op_ret.op = "hwp-spin-down"
    /\ op_ret.args.disable_hwp
    /\ state.hwp_spinning
    /\ op_ret.duration = 0

\* det-setup with disable_hwp moved to a new pointing under a spinning HWP:
\* the HWP is neither stopped nor restarted and only the 60 s are spent
DisabledDetSetupOnSpinning ==
    /\ op_ret.op = "det-setup"
    /\ op_ret.args.disable_hwp
    /\ state.hwp_spinning
    /\ op_ret.duration = DetSetupSeconds

-----------------------------------------------------------------------------
(* BasicPolicy (basic.py): make_rule, merge, and the apply it inherits *)

\* the names a rule is looked up by
RuleNames == {"sun-avoidance", "min-duration"}

\* `not kwargs`: no keyword parameter was given
NoKwargs == <<>>

\* the parameters a rule can be configured with
Kwargs(name) ==
    IF name = "min-duration"
        THEN {[min_duration |-> d] : d \in 1..MaxT}
        ELSE {[min_angle |-> 0]}

\* every self.rules over RuleNames: some names are configured, some are not
RuleSets ==
    UNION {{r \in [S -> UNION {Kwargs(n) : n \in S}] :
               \A n \in S : r[n] \in Kwargs(n)} : S \in SUBSET RuleNames}

\* the tree handed to merge and apply: blocks['master'] and, source by
\* source, blocks['sources']['calibration']
PolTrees ==
    {[master |-> c[1], calibration |-> Tail(c)] :
        c \in {x \in CandidateLists : Len(x) >= 1}}

\* the implementations of the abstract BasePolicy.transform that are looked
\* at: one that changes nothing, one that drops the calibration blocks of no
\* duration
Transforms == {"keep", "drop-empty-calibration"}

\* core.seq_flatten of a list of lists
RECURSIVE seq_flatten(_)
seq_flatten(ls) ==
    IF ls = <<>> THEN <<>> ELSE Head(ls) \o seq_flatten(Tail(ls))

\* b put into a sequence sorted by t0, before the blocks that start with it
\* or later
InsertByT0(b, s) ==
    LET before == {k \in 1..Len(s) : s[k].t0 < b.t0}
        n == Cardinality(before)
    IN SubSeq(s, 1, n) \o <<b>> \o SubSeq(s, n + 1, Len(s))

\* core.seq_sort: the stable sort by t0
RECURSIVE seq_sort(_)
seq_sort(s) ==
    IF s = <<>> THEN <<>> ELSE InsertByT0(Head(s), seq_sort(Tail(s)))

\* core.seq_merge(seq1, seq2, flatten=True): both flattened, concatenated and
\* sorted by t0
seq_merge(seq1, seq2) == seq_sort(seq1 \o seq_flatten(seq2))

\* the min-duration rule: the blocks shorter than min_duration are dropped
min_duration_rule(kwargs, blocks) ==
    LET long_enough(b) == b.t1 - b.t0 >= kwargs.min_duration
    IN SelectSeq(blocks, long_enough)

\* line 46: the assertion of make_rule, reached when no kwargs are given
rule_found(rule_name, kwargs) ==
    kwargs # NoKwargs \/ rule_name \in DOMAIN rules

\* lines 43-48: the rule make_rule constructs
make_rule(rule_name, kwargs) ==
    [name |-> rule_name,
     kwargs |-> IF kwargs = NoKwargs THEN rules[rule_name] ELSE kwargs]

\* merge without any sort: master followed by the calibration blocks
merge_concatenating(blocks) ==
    LET merged_blocks == blocks.master \o seq_flatten(blocks.calibration)
    IN IF "min-duration" \in DOMAIN rules
          THEN min_duration_rule(make_rule("min-duration", NoKwargs).kwargs,
                                 merged_blocks)
          ELSE merged_blocks

\* lines 100-105: BasicPolicy.merge
merge(blocks) ==
    LET merged_blocks == seq_merge(blocks.master, blocks.calibration)
        filtered ==
            IF "min-duration" \in DOMAIN rules
               THEN min_duration_rule(
                        make_rule("min-duration", NoKwargs).kwargs,
                        merged_blocks)
               ELSE merged_blocks
    IN seq_sort(filtered)

\* lines 19-20: self.transform, abstract in BasePolicy
transform(impl, blocks) ==
    IF impl = "keep" THEN blocks
    ELSE LET some_duration(b) == b.t1 > b.t0
         IN [blocks EXCEPT !.calibration =
                [k \in 1..Len(@) |-> SelectSeq(@[k], some_duration)]]

\* make_rule falling back on no parameters for a rule that is not configured
MakeRule_defaulting ==
    /\ pol_pc = "make_rule"
    /\ pol_ret' = [rule |-> IF rule_found(pol_args.rule_name, pol_args.kwargs)
                              THEN make_rule(pol_args.rule_name,
                                             pol_args.kwargs)
                              ELSE [name |-> pol_args.rule_name,
                                    kwargs |-> NoKwargs]]
    /\ pol_pc' = "returned"
    /\ UNCHANGED <<rules, pol_args, pol_trace>>
    /\ UNCHANGED <<rr_vars, sq_vars, op_vars, sat_vars>>

\* lines 42-48: make_rule(rule_name, **kwargs)
MakeRule ==
    /\ pol_pc = "make_rule"
    /\ IF rule_found(pol_args.rule_name, pol_args.kwargs)
          THEN /\ pol_ret' = [rule |-> make_rule(pol_args.rule_name,
                                                 pol_args.kwargs)]
               /\ pol_pc' = "returned"
          ELSE /\ pol_ret' = [error |-> "AssertionError"]
               /\ pol_pc' = "raised"
    /\ UNCHANGED <<rules, pol_args, pol_trace>>
    /\ UNCHANGED <<rr_vars, sq_vars, op_vars, sat_vars>>

\* lines 100-105: merge(blocks)
Merge ==
    /\ pol_pc = "merge"
    /\ pol_ret' = [value |-> merge(pol_args.blocks)]
    /\ pol_pc' = "returned"
    /\ UNCHANGED <<rules, pol_args, pol_trace>>
    /\ UNCHANGED <<rr_vars, sq_vars, op_vars, sat_vars>>

\* line 27 of apply: blocks = self.transform(blocks)
ApplyTransform ==
    /\ pol_pc = "apply"
    /\ pol_ret' = [blocks |-> transform(pol_args.impl, pol_args.blocks)]
    /\ pol_trace' = Append(pol_trace, "transform")
    /\ pol_pc' = "apply_merge"
    /\ UNCHANGED <<rules, pol_args>>
    /\ UNCHANGED <<rr_vars, sq_vars, op_vars, sat_vars>>

\* line 28 taking the tree apply was called with, not transform's result
ApplyMerge_of_argument ==
    /\ pol_pc = "apply_merge"
    /\ pol_ret' = [value |-> merge(pol_args.blocks)]
    /\ pol_trace' = Append(pol_trace, "merge")
    /\ pol_pc' = "returned"
    /\ UNCHANGED <<rules, pol_args>>
    /\ UNCHANGED <<rr_vars, sq_vars, op_vars, sat_vars>>

\* lines 28-29 of apply: blocks = self.merge(blocks); return blocks
ApplyMerge ==
    /\ pol_pc = "apply_merge"
    /\ pol_ret' = [value |-> merge(pol_ret.blocks)]
    /\ pol_trace' = Append(pol_trace, "merge")
    /\ pol_pc' = "returned"
    /\ UNCHANGED <<rules, pol_args>>
    /\ UNCHANGED <<rr_vars, sq_vars, op_vars, sat_vars>>

\* the calls made on the policy, and its configuration
PolArgs ==
    /\ rules \in RuleSets
    /\ \/ \E n \in RuleNames, kw \in {NoKwargs} \cup Kwargs("min-duration") :
            pol_args = [call |-> "make_rule", rule_name |-> n, kwargs |-> kw]
       \/ \E t \in PolTrees : pol_args = [call |-> "merge", blocks |-> t]
       \/ \E t \in PolTrees, impl \in Transforms :
            pol_args = [call |-> "apply", blocks |-> t, impl |-> impl]
    /\ pol_ret = None
    /\ pol_trace = <<>>
    /\ pol_pc = pol_args.call

PolNext ==
    \/ MakeRule
    \/ Merge
    \/ ApplyTransform
    \/ ApplyMerge

\* one call of make_rule, merge or apply on every configuration of PolArgs
SpecPolicyInit == PolArgs /\ RRIdle /\ SqIdle /\ OpIdle /\ SatIdle

SpecPolicy == SpecPolicyInit /\ [][PolNext]_vars

-----------------------------------------------------------------------------
(* Properties of the policy *)

\* C18: apply(blocks) returns merge(transform(blocks)): transform ran first,
\* on the tree apply was called with, merge ran second, on what transform
\* returned, and nothing else ran.
C18_ApplyIsMergeOfTransform ==
    (pol_pc = "returned" /\ pol_args.call = "apply") =>
        /\ pol_ret = [value |->
                        merge(transform(pol_args.impl, pol_args.blocks))]
        /\ pol_trace = <<"transform", "merge">>

\* C18's case: apply returned, and transform had changed the tree in a way
\* that shows in the result
C18_Witness ==
    /\ pol_pc = "returned"
    /\ pol_args.call = "apply"
    /\ pol_ret.value # merge(pol_args.blocks)
    /\ Len(pol_ret.value) >= 1

\* C19: the sequence BasicPolicy.merge returns is sorted by t0: a.t0 <= b.t0
\* for every adjacent pair (a, b).
C19_MergeSorted ==
    (pol_pc = "returned" /\ pol_args.call = "merge") =>
        \A k \in 1..(Len(pol_ret.value) - 1) :
            pol_ret.value[k].t0 <= pol_ret.value[k + 1].t0

\* C19's case: merge returned two blocks or more, from a tree whose master
\* block starts after a calibration block, with the min-duration rule
\* configured
C19_Witness ==
    /\ pol_pc = "returned"
    /\ pol_args.call = "merge"
    /\ "min-duration" \in DOMAIN rules
    /\ Len(pol_ret.value) >= 2
    /\ \E a \in 1..Len(pol_args.blocks.master) :
         \E s \in 1..Len(pol_args.blocks.calibration) :
           \E b \in 1..Len(pol_args.blocks.calibration[s]) :
             pol_args.blocks.calibration[s][b].t0
                 < pol_args.blocks.master[a].t0

\* C20: make_rule called with a rule name that is not in self.rules and with
\* no keyword parameter fails with an error and constructs no rule.
C20_UnknownRuleFails ==
    (/\ pol_args.call = "make_rule"
     /\ pol_pc # "make_rule"
     /\ pol_args.rule_name \notin DOMAIN rules
     /\ pol_args.kwargs = NoKwargs)
    => pol_pc = "raised" /\ pol_ret = [error |-> "AssertionError"]

\* C20's case: some rules are configured, make_rule was called for another
\* one with no keyword parameter, and the call is over
C20_Witness ==
    /\ pol_args.call = "make_rule"
    /\ pol_pc # "make_rule"
    /\ DOMAIN rules # {}
    /\ pol_args.rule_name \notin DOMAIN rules
    /\ pol_args.kwargs = NoKwargs

-----------------------------------------------------------------------------
(* SATPolicy.init_seqs, BasicPolicy.init_seqs and SATPolicy.apply *)

\* the sequences the loaders return (src.source_gen_seq,
\* inst.parse_sequence_from_toast): the first list is the baseline (master)
\* schedule, the others the calibration sources, numbered from 1; a source
\* is loaded the same way whether self.blocks names it or cal_targets adds
\* it (sat.py lines 445-448)
LoadedLists == {x \in CandidateLists : Len(x) >= 1}

\* the time ranges [t0, t1] init_seqs is called with
Windows == {w \in [t0 : 0..MaxT, t1 : 0..MaxT] : w.t0 < w.t1}

\* trimming that also drops every block of no duration
block_trim_dropping_empty(b, w, touching) ==
    IF b = None THEN None
    ELSE IF b.t0 = b.t1 THEN None
    ELSE IF touching /\ (b.t1 < w.t0 \/ b.t0 > w.t1) THEN None
    ELSE IF ~touching /\ (b.t1 <= w.t0 \/ b.t0 >= w.t1) THEN None
    ELSE [b EXCEPT !.t0 = IF @ < w.t0 THEN w.t0 ELSE @,
                   !.t1 = IF @ > w.t1 THEN w.t1 ELSE @]

\* core.seq_trim on one block: a block fully outside the window becomes
\* None, a block partially overlapping is truncated; `touching` fixes whether
\* a block that only touches an edge of the window counts as outside
block_trim(b, w, touching) ==
    IF b = None THEN None
    ELSE IF touching /\ (b.t1 < w.t0 \/ b.t0 > w.t1) THEN None
    ELSE IF ~touching /\ (b.t1 <= w.t0 \/ b.t0 >= w.t1) THEN None
    ELSE [b EXCEPT !.t0 = IF @ < w.t0 THEN w.t0 ELSE @,
                   !.t1 = IF @ > w.t1 THEN w.t1 ELSE @]

\* core.seq_trim on one list: block by block, None where a block is gone
list_trim(l, w, touching) ==
    [k \in 1..Len(l) |-> block_trim(l[k], w, touching)]

\* sat.py lines 461-465: [x_ for x_ in x if x_ is not None]
drop_nones_keeping(l) == l
drop_nones(l) ==
    LET present(b) == b # None
    IN SelectSeq(l, present)

\* core.seq_trim on a tree: the calibration sources list by list, the
\* baseline (master) list
seq_trim(tree, w, touching) ==
    [f \in DOMAIN tree |->
        IF f = "calibration"
           THEN [k \in 1..Len(tree[f]) |-> list_trim(tree[f][k], w, touching)]
           ELSE list_trim(tree[f], w, touching)]

\* the tree the loaders of SATPolicy build from x
sat_tree(x) == [baseline |-> x[1], calibration |-> Tail(x)]

\* sat.py lines 416-471: SATPolicy.init_seqs(t0, t1)
sat_init_seqs(loaded, w, touching) ==
    LET blocks == seq_trim(sat_tree(loaded), w, touching)
    IN [baseline |-> drop_nones(blocks.baseline),
        calibration |-> [k \in 1..Len(blocks.calibration) |->
                            drop_nones(blocks.calibration[k])]]

\* basic.py lines 50-61: BasicPolicy.init_seqs(t0, t1); the soft sources are
\* loaded and trimmed as the calibration sources are
basic_init_seqs(loaded, w, touching) ==
    LET blocks == [master |-> loaded[1], calibration |-> Tail(loaded)]
    IN seq_trim(blocks, w, touching)

\* every list of a tree returned by an init_seqs
Leaves(tree) ==
    {tree.calibration[k] : k \in 1..Len(tree.calibration)} \cup
    (IF "baseline" \in DOMAIN tree THEN {tree.baseline} ELSE {tree.master})

\* the sun-avoidance rule of SATPolicy on one list: the part of a block
\* after the cutoff is cut away, a block with nothing left is dropped
sun_rule_list(kwargs, l) ==
    LET cut(b) == IF b.t1 <= kwargs.cutoff THEN b
                  ELSE IF b.t0 < kwargs.cutoff THEN Block(b.t0, kwargs.cutoff)
                  ELSE None
    IN drop_nones([k \in 1..Len(l) |-> cut(l[k])])

\* sat.py line 497: sun_rule(blocks['calibration'])
sun_rule(kwargs, calibration) ==
    [k \in 1..Len(calibration) |-> sun_rule_list(kwargs, calibration[k])]

\* every calibration policy name taken as supported
cal_policy_any(name) == TRUE
\* sat.py lines 548-555: the lookup of self.cal_policy
cal_policy_known(name) == name = "round-robin"

\* sat.py lines 473-587: SATPolicy.apply(blocks).  MakeCESourceScan turns
\* every observing window of a target into one scan over the same interval.
\* round_robin returns only when it is handed no block at all (lines
\* 834-835: block_idx is never advanced); otherwise control stays inside it.
SatApply ==
    /\ sat_pc = "apply"
    /\ LET has_sun == "sun-avoidance" \in DOMAIN sat_args.rules
           calibration == sun_rule(sat_args.rules["sun-avoidance"],
                                   sat_blocks.calibration)
           targets == sat_args.cal_targets
           missing == \E k \in 1..Len(targets) :
                          targets[k] \notin DOMAIN calibration
           cal_blocks == [k \in 1..Len(targets) |-> calibration[targets[k]]]
           nothing == \A k \in 1..Len(targets) : Len(cal_blocks[k]) = 0
           cmb(b) == [t0 |-> b.t0, t1 |-> b.t1, subtype |-> "cmb"]
           result == [baseline |-> [k \in 1..Len(sat_blocks.baseline) |->
                                       cmb(sat_blocks.baseline[k])],
                      calibration |-> <<>>]
       IN IF ~has_sun
             THEN /\ sat_ret' = [error |-> "AssertionError"]
                  /\ sat_pc' = "raised"
                  /\ UNCHANGED sat_blocks
          ELSE IF missing
             THEN /\ sat_ret' = [error |-> "AssertionError"]
                  /\ sat_pc' = "raised"
                  /\ sat_blocks' = [sat_blocks EXCEPT
                                       !.calibration = calibration]
          ELSE IF ~cal_policy_known(sat_args.cal_policy)
             THEN /\ sat_ret' = [error |-> "ValueError"]
                  /\ sat_pc' = "raised"
                  /\ sat_blocks' = [sat_blocks EXCEPT
                                       !.calibration = calibration]
          ELSE IF ~nothing
             THEN /\ sat_ret' = None
                  /\ sat_pc' = "round_robin"
                  /\ sat_blocks' = [sat_blocks EXCEPT
                                       !.calibration = calibration]
          ELSE /\ sat_ret' = [value |-> result]
               /\ sat_pc' = "returned"
               /\ sat_blocks' = result
    /\ UNCHANGED sat_args
    /\ UNCHANGED <<rr_vars, sq_vars, op_vars, pol_vars>>

\* SATPolicy.init_seqs(t0, t1)
SatInitSeqs ==
    /\ sat_pc = "init_seqs"
    /\ sat_ret' = [value |-> sat_init_seqs(sat_args.loaded, sat_args.window,
                                           sat_args.touching)]
    /\ sat_pc' = "returned"
    /\ UNCHANGED <<sat_args, sat_blocks>>
    /\ UNCHANGED <<rr_vars, sq_vars, op_vars, pol_vars>>

\* BasicPolicy.init_seqs(t0, t1)
BasicInitSeqs ==
    /\ sat_pc = "basic_init_seqs"
    /\ sat_ret' = [value |-> basic_init_seqs(sat_args.loaded, sat_args.window,
                                             sat_args.touching)]
    /\ sat_pc' = "returned"
    /\ UNCHANGED <<sat_args, sat_blocks>>
    /\ UNCHANGED <<rr_vars, sq_vars, op_vars, pol_vars>>

\* self.rules of SATPolicy: the sun-avoidance rule is configured or is not
SatRules ==
    {<<>>} \cup {[n \in {"sun-avoidance"} |-> [cutoff |-> c]] : c \in {1, MaxT}}

\* self.cal_targets, by the number of the source: none, one, two
SatTargets == {<<>>, <<1>>, <<2, 1>>}

\* self.cal_policy
SatCalPolicies == {"round-robin", "greedy"}

\* the calls made, and the configuration of the policy
SatArgs ==
    /\ \/ /\ \E x \in LoadedLists, w \in Windows, e \in BOOLEAN :
               \E m \in {"init_seqs", "basic_init_seqs"} :
                  sat_args = [call |-> m, loaded |-> x, window |-> w,
                              touching |-> e]
          /\ sat_blocks = None
       \/ \E x \in LoadedLists, r \in SatRules, ts \in SatTargets,
             p \in SatCalPolicies :
            /\ sat_args = [call |-> "apply", blocks |-> sat_tree(x),
                           rules |-> r,
                           cal_targets |-> ts, cal_policy |-> p]
            /\ sat_blocks = sat_tree(x)
    /\ sat_ret = None
    /\ sat_pc = sat_args.call

SatNext ==
    \/ SatInitSeqs
    \/ BasicInitSeqs
    \/ SatApply

\* one call of an init_seqs or of SATPolicy.apply on every configuration of
\* SatArgs
SpecSatInit == SatArgs /\ RRIdle /\ SqIdle /\ OpIdle /\ PolIdle

SpecSat == SpecSatInit /\ [][SatNext]_vars

-----------------------------------------------------------------------------
(* Properties of SATPolicy.apply and of the init_seqs *)

\* C21: SATPolicy.apply with a cal_policy name other than 'round-robin' fails
\* with an error and returns no schedule: once the call is over it has
\* raised, and no tree was returned.
C21_UnknownCalPolicyFails ==
    (/\ sat_args.call = "apply"
     /\ sat_pc # "apply"
     /\ sat_args.cal_policy # "round-robin")
    => /\ sat_pc = "raised"
       /\ sat_ret \in {[error |-> "ValueError"], [error |-> "AssertionError"]}

\* C21's case: apply was called with another policy name on a configuration
\* whose assertions hold and whose targets have blocks left, and it raised
\* the ValueError of line 555
C21_Witness ==
    /\ sat_args.call = "apply"
    /\ sat_args.cal_policy # "round-robin"
    /\ sat_ret = [error |-> "ValueError"]
    /\ Len(sat_args.cal_targets) >= 1
    /\ \E k \in 1..Len(sat_args.cal_targets) :
          Len(sat_blocks.calibration[sat_args.cal_targets[k]]) >= 1

\* an init_seqs was called and has returned
InitSeqsReturned ==
    sat_args.call \in {"init_seqs", "basic_init_seqs"} /\ sat_pc = "returned"

\* C23: every block of the tree returned by SATPolicy.init_seqs(t0, t1) and
\* by BasicPolicy.init_seqs(t0, t1), that is every block remaining after the
\* trim, lies inside the window: t0 <= block.t0 and block.t1 <= t1; and no
\* list of the SATPolicy result holds a None.
C23_TrimmedInsideWindow ==
    InitSeqsReturned =>
        \A l \in Leaves(sat_ret.value) : \A k \in 1..Len(l) :
            /\ l[k] # None =>
                  /\ sat_args.window.t0 <= l[k].t0
                  /\ l[k].t1 <= sat_args.window.t1
            /\ sat_args.call = "init_seqs" => l[k] # None

\* C23's case: SATPolicy.init_seqs returned a tree on loaded sequences of
\* which one block was outside the window and another was truncated
C23_Witness ==
    /\ sat_args.call = "init_seqs"
    /\ sat_pc = "returned"
    /\ \E l \in Leaves(sat_tree(sat_args.loaded)) : \E k \in 1..Len(l) :
          block_trim(l[k], sat_args.window, sat_args.touching) = None
    /\ \E l \in Leaves(sat_ret.value) : \E k \in 1..Len(l) :
          \A m \in Leaves(sat_tree(sat_args.loaded)) :
              \A j \in 1..Len(m) : m[j] # l[k]

\* C24: trim is idempotent: trimming the tree BasicPolicy.init_seqs returned,
\* which is trim(tree, t0, t1), to the same window once more gives that tree
\* again.
C24_TrimIdempotent ==
    (sat_args.call = "basic_init_seqs" /\ sat_pc = "returned") =>
        seq_trim(sat_ret.value, sat_args.window, sat_args.touching)
            = sat_ret.value

\* C24's case: the first trim made a block absent and truncated another
C24_Witness ==
    /\ sat_args.call = "basic_init_seqs"
    /\ sat_pc = "returned"
    /\ \E l \in Leaves(sat_ret.value) : \E k \in 1..Len(l) : l[k] = None
    /\ \E l \in Leaves(sat_ret.value) : \E k \in 1..Len(l) :
          /\ l[k] # None
          /\ \A j \in 1..Len(sat_args.loaded) :
                \A i \in 1..Len(sat_args.loaded[j]) :
                    sat_args.loaded[j][i] # l[k]

\* apply was called and failed with an error
ApplyRaised == sat_args.call = "apply" /\ sat_pc = "raised"

\* C34: when SATPolicy.apply fails with a configuration error (no
\* 'sun-avoidance' rule, a calibration target whose source is not in the
\* tree, an unsupported cal_policy), the caller's block tree is left exactly
\* as it was passed in
C34_FailedApplyLeavesTree ==
    ApplyRaised => sat_blocks = sat_args.blocks

\* the failure of line 495 comes before the first write to the tree
MissingSunRuleLeavesTree ==
    (ApplyRaised /\ "sun-avoidance" \notin DOMAIN sat_args.rules)
        => sat_blocks = sat_args.blocks

\* a failed apply leaves the baseline of the tree as it was, and of the
\* calibration lists exactly what the sun avoidance rule leaves of them
FailedApplyKeepsSunRuleOnly ==
    (ApplyRaised /\ "sun-avoidance" \in DOMAIN sat_args.rules)
        => sat_blocks =
              [sat_args.blocks EXCEPT
                  !.calibration = sun_rule(sat_args.rules["sun-avoidance"], @)]

=============================================================================
